---------------------------- MODULE Spec2Model ----------------------------
(***************************************************************************)
(* A model of rustysd's activation and supervision engine:                 *)
(*   - the parallel activator of src/src/units/activate_unit.rs            *)
(*     (activate_units, activate_units_recursive, activate_unit) with the   *)
(*     per-unit locks it takes,                                            *)
(*   - the service supervisor of src/src/services/services.rs and          *)
(*     src/src/services/fork_parent.rs,                                    *)
(*   - the notification parser and the multiplexer loops (notify, stdout,  *)
(*     stderr) of src/src/notification_handler.rs.                         *)
(***************************************************************************)
EXTENDS Integers, Sequences, FiniteSets, Bags, TLC

\* ------------------------------------------------------------------------
\* Bounds of the model
\* ------------------------------------------------------------------------

\* Number of units in the unit table.
NUnits == 3

\* Number of units in the unit table of the wide scenarios (forward
\* dependency graphs, with one optional cycle).
NWide == 4

\* Number of processes (service processes and helper commands) forked in a run.
MaxProcs == 2

\* Number of datagrams the service process sends in a run.
MaxDgrams == 1

\* Length of the byte streams fed to the notification parser.
MaxStream == 4

\* ThreadPool::new(6): the number of worker threads of the activation pool.
PoolSize == 6
MaxStatus == 17     \* STATUS messages a service sends

VARIABLES
    unit_table,   \* the ids of the units in the unit table
    after,        \* install.after of every unit (fixed at load)
    needs,        \* the socket units a unit needs for its activation (fixed at load)
    fails,        \* the units whose Unit::activate returns Err
    mainTodo,     \* main thread: root units activate_units_recursive still has to submit
    mainPc,       \* main thread: "submit" | "join" | "returned"
    queue,        \* the pool's FIFO of submitted jobs
    running,      \* bag of the jobs the pool's workers are executing
    started_ids,  \* Arc<Mutex<Vec<InternalId>>>
    activations,  \* per unit: how often Unit::activate was invoked
    errors        \* units for which a job panicked with "Error while activating unit"

VARIABLES
    conf,         \* service_config and socket_names of the service (fixed at load)
    srvc,         \* the runtime fields of the Service
    pid_table,    \* the PidTable: pid -> PidEntry
    procs,        \* the processes forked and not yet reaped: pid -> state
    nextPid,      \* the pid the next fork returns
    sock,         \* datagrams queued in the service's notification socket
    sent,         \* number of datagrams the service has sent
    eventfd,      \* the wake-up eventfd is posted
    sup,          \* the thread inside Service::start / Service::stop
    ev            \* the last step taken on the service (history)

VARIABLES
    parse,        \* a byte stream fed to the notification parser in chunks
    pipe,         \* the pipe between the service's stdout (stderr) and its read-end
    std,          \* the thread of handle_all_std_out (handle_all_std_err)
    out,          \* the lines written to the supervisor's stdout (stderr)
    mux           \* the thread of handle_all_streams

stdVars == <<pipe, std, out>>

ioVars == <<parse, stdVars, mux>>

svcVars == <<conf, srvc, pid_table, procs, nextPid, sock, sent, eventfd, sup, ev>>

actVars == <<unit_table, after, needs, fails, mainTodo, mainPc, queue, running, started_ids,
             activations, errors>>

vars == <<actVars, svcVars, ioVars>>

\* ------------------------------------------------------------------------
\* Helpers
\* ------------------------------------------------------------------------

Range(s) == {s[i] : i \in DOMAIN s}

RECURSIVE SetToSeq(_)
\* The elements of a set of unit ids as a sequence in ascending order.
SetToSeq(S) ==
    IF S = {} THEN <<>>
    ELSE LET m == CHOOSE x \in S : \A y \in S : x <= y
         IN <<m>> \o SetToSeq(S \ {m})

\* All orders in which a HashMap with the keys S may be iterated.
Orders(S) == {s \in [1..Cardinality(S) -> S] : Range(s) = S}

Count(s, x) == Cardinality({i \in DOMAIN s : s[i] = x})

\* install.before is filled as the mirror of install.after when the units
\* are loaded.
before(u) == {v \in unit_table : u \in after[v]}

\* ------------------------------------------------------------------------
\* The activator (src/src/units/activate_unit.rs)
\* ------------------------------------------------------------------------

\* A job submitted with tpool.execute: the closure of lines 27-70 that
\* activates unit id ("act"), or next_services_job of lines 50-60 that runs
\* activate_units_recursive over the ids in todo ("enq").
ActJob(u) == [kind |-> "act", id |-> u, pc |-> "start", todo |-> <<>>]
EnqJob(ids) == [kind |-> "enq", id |-> 0, pc |-> "start", todo |-> ids]

Jobs == BagToSet(running)

Started == Range(started_ids)

\* activate_units, lines 174-182: the units with an empty install.after.
RootUnits == {u \in unit_table : after[u] = {}}

\* The per-unit mutexes a job holds, by its place in activate_unit:
\*   locksockets  lines 107-137: the unit itself and the sockets locked so far
\*   relock       lines 143-147: the guards in socket_units_locked only
\*   activate     lines 147-165: the unit again, and the socket guards
HeldBy(j) ==
    IF j.kind # "act" THEN {}
    ELSE CASE j.pc = "locksockets" -> {j.id} \cup (needs[j.id] \ Range(j.todo))
           [] j.pc = "relock"      -> needs[j.id]
           [] j.pc = "activate"    -> {j.id} \cup needs[j.id]
           [] OTHER                -> {}

Locked == UNION {HeldBy(j) : j \in Jobs}

\* The unit mutex a job is about to lock (Mutex::lock blocks while it is held).
Wants(j) ==
    IF j.kind # "act" THEN {}
    ELSE CASE j.pc = "start"       -> {j.id}
           [] j.pc = "locksockets" -> {Head(j.todo)}
           [] j.pc = "relock"      -> {j.id}
           [] OTHER                -> {}

\* The job holds the read lock of unit_table: units_locked lives from line 99
\* to the end of the block at line 145.  (The step at "start" takes it and
\* locks the unit under it.)
HoldsRegistry(j) == j.kind = "act" /\ j.pc = "locksockets"

\* The fold of lines 114-118 with || for &&: one started dependency is enough.
AllDepsReady_AnyDep(u) == after[u] = {} \/ \E d \in after[u] : d \in Started

\* activate_unit, lines 114-118: the fold over install.after.
AllDepsReady(u) == \A d \in after[u] : d \in Started

\* The result of Unit::activate (Ok = TRUE). A unit in fails returns Err; a
\* unit activated before returns Err when it is a service (Service::start,
\* services.rs lines 56-62: the pid is already set) and Ok when it is a target.
ActivateResult(u) ==
    IF u \in fails THEN {FALSE}
    ELSE IF activations[u] > 0 THEN {TRUE, FALSE}
    ELSE {TRUE}

Finish(j) == running' = running (-) SetToBag({j})
Move(j, k) == running' = (running (-) SetToBag({j})) (+) SetToBag({k})

\* activate_units_recursive called by activate_units (line 187): one
\* tpool.execute per root unit, then tpool.join() (line 197).
Submit ==
    /\ mainPc = "submit"
    /\ mainTodo # <<>>
    /\ queue' = Append(queue, ActJob(Head(mainTodo)))
    /\ mainTodo' = Tail(mainTodo)
    /\ mainPc' = IF Tail(mainTodo) = <<>> THEN "join" ELSE "submit"
    /\ UNCHANGED <<svcVars, ioVars, unit_table, after, needs, fails, running, started_ids, activations, errors>>

\* tpool.join() returns when no job is queued and no job is active.
Join ==
    /\ mainPc = "join"
    /\ queue = <<>>
    /\ running = EmptyBag
    /\ mainPc' = "returned"
    /\ UNCHANGED <<svcVars, ioVars, unit_table, after, needs, fails, mainTodo, queue, running, started_ids,
                   activations, errors>>

\* A free worker of the pool takes the oldest job.
Take ==
    /\ queue # <<>>
    /\ BagCardinality(running) < PoolSize
    /\ running' = running (+) SetToBag({Head(queue)})
    /\ queue' = Tail(queue)
    /\ UNCHANGED <<svcVars, ioVars, unit_table, after, needs, fails, mainTodo, mainPc, started_ids, activations, errors>>

\* activate_unit lines 99-126: lock the unit under the unit_table read lock
\* and check its dependencies under the started_ids lock; Ignored when one
\* is missing. Otherwise socket_units is filled (line 130): a HashMap, so the
\* order in which line 132 iterates it is any order.
CheckDeps(j) ==
    /\ j.kind = "act" /\ j.pc = "start"
    /\ j.id \notin Locked
    /\ IF ~AllDepsReady(j.id)
       THEN Finish(j)
       ELSE \E ord \in Orders(needs[j.id]) :
              Move(j, [j EXCEPT !.pc = IF ord = <<>> THEN "relock" ELSE "locksockets",
                                !.todo = ord])
    /\ UNCHANGED <<svcVars, ioVars, unit_table, after, needs, fails, mainTodo, mainPc, queue, started_ids,
                   activations, errors>>

\* activate_unit lines 132-145: lock the next needed socket unit; after the
\* last one the guard of the unit itself and the unit_table guard are dropped.
LockSocket(j) ==
    /\ j.kind = "act" /\ j.pc = "locksockets"
    /\ Head(j.todo) \notin Locked
    /\ Move(j, [j EXCEPT !.pc = IF Tail(j.todo) = <<>> THEN "relock" ELSE "locksockets",
                         !.todo = Tail(j.todo)])
    /\ UNCHANGED <<svcVars, ioVars, unit_table, after, needs, fails, mainTodo, mainPc, queue, started_ids,
                   activations, errors>>

\* activate_unit line 147: lock the unit again.
Relock(j) ==
    /\ j.kind = "act" /\ j.pc = "relock"
    /\ j.id \notin Locked
    /\ Move(j, [j EXCEPT !.pc = "activate"])
    /\ UNCHANGED <<svcVars, ioVars, unit_table, after, needs, fails, mainTodo, mainPc, queue, started_ids,
                   activations, errors>>

\* activate_unit lines 148-165 and the match of lines 35-69: Unit::activate is
\* invoked; all guards are dropped on return. Err makes the job panic
\* (line 67): the pool replaces the worker and the other jobs go on.
Activate(j) ==
    /\ j.kind = "act" /\ j.pc = "activate"
    /\ activations' = [activations EXCEPT ![j.id] = @ + 1]
    /\ \E ok \in ActivateResult(j.id) :
         IF ok
         THEN Move(j, [j EXCEPT !.pc = "push"]) /\ errors' = errors
         ELSE Finish(j) /\ errors' = errors \cup {j.id}
    /\ UNCHANGED <<svcVars, ioVars, unit_table, after, needs, fails, mainTodo, mainPc, queue, started_ids>>

\* lines 45-48: started_ids_locked.push(id).
Push(j) ==
    /\ j.kind = "act" /\ j.pc = "push"
    /\ started_ids' = Append(started_ids, j.id)
    /\ Move(j, [j EXCEPT !.pc = "execnext"])
    /\ UNCHANGED <<svcVars, ioVars, unit_table, after, needs, fails, mainTodo, mainPc, queue, activations, errors>>

\* lines 50-61: tpool_copy.execute(next_services_job) with install.before.
ExecNext(j) ==
    /\ j.kind = "act" /\ j.pc = "execnext"
    /\ queue' = Append(queue, EnqJob(SetToSeq(before(j.id))))
    /\ Finish(j)
    /\ UNCHANGED <<svcVars, ioVars, unit_table, after, needs, fails, mainTodo, mainPc, started_ids, activations, errors>>

\* next_services_job: activate_units_recursive (lines 19-71) submits one job
\* per id of the list.
EnqStep(j) ==
    /\ j.kind = "enq"
    /\ IF j.todo = <<>>
       THEN Finish(j) /\ queue' = queue
       ELSE /\ queue' = Append(queue, ActJob(Head(j.todo)))
            /\ IF Tail(j.todo) = <<>> THEN Finish(j)
               ELSE Move(j, [j EXCEPT !.todo = Tail(j.todo)])
    /\ UNCHANGED <<svcVars, ioVars, unit_table, after, needs, fails, mainTodo, mainPc, started_ids, activations, errors>>

ActNext ==
    \/ Submit
    \/ Join
    \/ Take
    \/ \E j \in Jobs : CheckDeps(j)
    \/ \E j \in Jobs : LockSocket(j)
    \/ \E j \in Jobs : Relock(j)
    \/ \E j \in Jobs : Activate(j)
    \/ \E j \in Jobs : Push(j)
    \/ \E j \in Jobs : ExecNext(j)
    \/ \E j \in Jobs : EnqStep(j)

\* ------------------------------------------------------------------------
\* The service supervisor: Service::start, Service::stop, the helper
\* commands, the reaper and the notification handler
\* ------------------------------------------------------------------------

\* A string is the sequence of its tokens; "=" and "\n" are the two
\* separators the notification handler looks for.
NL == "\n"
EQ == "="

None == 0

Insert(t, p, e) == [q \in DOMAIN t \cup {p} |-> IF q = p THEN e ELSE t[q]]

Remove(t, p) == [q \in DOMAIN t \ {p} |-> t[q]]

\* str.find(c): the first index of c in str (0 when absent).
RECURSIVE Find(_, _)
Find(str, c) ==
    IF str = <<>> THEN 0
    ELSE IF Head(str) = c THEN 1
    ELSE LET r == Find(Tail(str), c) IN IF r = 0 THEN 0 ELSE r + 1

\* str.split(c).collect(): the segments between the occurrences of c; one
\* segment (the whole string) when c does not occur.
RECURSIVE Split(_, _)
Split(str, c) ==
    LET i == Find(str, c) IN
    IF i = 0 THEN <<str>>
    ELSE <<SubSeq(str, 1, i - 1)>> \o Split(SubSeq(str, i + 1, Len(str)), c)

\* notification_handler.rs 220-239.  split[1] of a STATUS line without "="
\* is out of bounds: the thread panics while it holds the unit's mutex.
HandleNotificationMessage(msg, s) ==
    LET split == Split(msg, EQ) IN
    IF split[1] = <<"STATUS">>
    THEN IF Len(split) < 2
         THEN [s EXCEPT !.poisoned = TRUE]
         ELSE [s EXCEPT !.status_msgs = Append(@, split[2])]
    ELSE IF split[1] = <<"READY">>
    THEN [s EXCEPT !.signaled_ready = TRUE]
    ELSE s

\* handle_notifications_from_buffer with an if in the place of the while: one
\* line is handled per call.
HandleNotificationsFromBuffer_OneLine(s) ==
    LET i == Find(s.notifications_buffer, NL) IN
    IF i = 0 \/ s.poisoned THEN s
    ELSE HandleNotificationMessage(
            SubSeq(s.notifications_buffer, 1, i - 1),
            [s EXCEPT !.notifications_buffer = SubSeq(@, i + 1, Len(@))])

\* notification_handler.rs 241-251: while the buffer contains a newline, cut
\* the line before it off the buffer and handle it.
RECURSIVE HandleNotificationsFromBuffer(_)
HandleNotificationsFromBuffer(s) ==
    LET i == Find(s.notifications_buffer, NL) IN
    IF i = 0 \/ s.poisoned THEN s
    ELSE HandleNotificationsFromBuffer(
            HandleNotificationMessage(
                SubSeq(s.notifications_buffer, 1, i - 1),
                [s EXCEPT !.notifications_buffer = SubSeq(@, i + 1, Len(@))]))

\* The complete lines of a buffer, in order.
RECURSIVE Lines(_)
Lines(buf) ==
    LET i == Find(buf, NL) IN
    IF i = 0 THEN <<>>
    ELSE <<SubSeq(buf, 1, i - 1)>> \o Lines(SubSeq(buf, i + 1, Len(buf)))

\* A line with key READY is among the complete lines of buf.
HasReady(buf) == \E k \in 1..Len(Lines(buf)) : Split(Lines(buf)[k], EQ)[1] = <<"READY">>

\* recv + push_str + handle_notifications_from_buffer (fork_parent.rs 31-34,
\* notification_handler.rs 61-68).
Receive(s, dgram) ==
    HandleNotificationsFromBuffer([s EXCEPT !.notifications_buffer = @ \o dgram])

\* The datagrams a service process sends.
Datagrams ==
    { <<"READY", EQ, "1", NL>>,
      <<"STATUS", EQ, "booting", NL>> }

\* services.rs 157-174: starttimeout, then generaltimeout, else None.
GetStartTimeout(c) ==
    IF c.starttimeout # "Unset"
    THEN (IF c.starttimeout = "Infinity" THEN "None" ELSE c.starttimeout)
    ELSE IF c.generaltimeout # "Unset"
    THEN (IF c.generaltimeout = "Infinity" THEN "None" ELSE c.generaltimeout)
    ELSE "None"

\* services.rs 176-193: stoptimeout, then generaltimeout, else None.
GetStopTimeout(c) ==
    IF c.stoptimeout # "Unset"
    THEN (IF c.stoptimeout = "Infinity" THEN "None" ELSE c.stoptimeout)
    ELSE IF c.generaltimeout # "Unset"
    THEN (IF c.generaltimeout = "Infinity" THEN "None" ELSE c.generaltimeout)
    ELSE "None"

\* The timeout run_all_cmds is given in each phase: run_stop_cmd passes the
\* stop timeout (298), the others the start timeout (311, 331, 377).
PhaseTimeout(phase) ==
    IF phase = "stop" THEN GetStopTimeout(conf) ELSE GetStartTimeout(conf)

\* run_poststop (368-380) runs the stoppost commands unless startpost is
\* empty; run_all_cmds of an empty list runs nothing.
RunsPostStop == conf.startpost # <<>> /\ conf.stoppost # <<>>

Idle == [pc |-> "idle", phase |-> "none", cmds |-> <<>>, hpid |-> None, stop_ok |-> TRUE]

Ev(op, ready, ret) ==
    [op |-> op, ready |-> ready, ret |-> ret, allow_ignore |-> FALSE, again |-> FALSE]

\* The number of processes a call of start, of stop, may fork.
StartForks ==
    Len(conf.startpre) + 1 + Len(conf.startpost) + (IF RunsPostStop THEN Len(conf.stoppost) ELSE 0)

StopForks == Len(conf.stop) + (IF RunsPostStop THEN Len(conf.stoppost) ELSE 0)

\* The thread returns ret from Service::start or Service::stop.
Return(op, ready, ret) ==
    /\ sup' = Idle
    /\ ev' = Ev(op, ready, ret)

\* Enter run_all_cmds for the commands of a phase.
RunAll(op, ready, phase, cmds, stop_ok) ==
    /\ sup' = [pc |-> "cmd", phase |-> phase, cmds |-> cmds, hpid |-> None, stop_ok |-> stop_ok]
    /\ ev' = Ev(op, ready, "none")

\* run_poststop_because_err (343-366), then the Err of start.
PostStopBecauseErr(op) ==
    IF RunsPostStop
    THEN RunAll(op, FALSE, "stoppost_err", conf.stoppost, TRUE)
    ELSE Return(op, FALSE, "StartErr")

\* run_poststart (322-341) and the Ok(Started) of line 102.
PostStart(op, ready) ==
    IF conf.startpost = <<>>
    THEN Return(op, ready, "Started")
    ELSE RunAll(op, ready, "startpost", conf.startpost, TRUE)

\* What follows run_all_cmds in each phase.
AfterCmds(op, phase, ok) ==
    CASE phase = "startpre" ->
            IF ok THEN /\ sup' = [Idle EXCEPT !.pc = "fork"]
                       /\ ev' = Ev(op, FALSE, "none")
            ELSE PostStopBecauseErr(op)
      [] phase = "startpost" ->
            IF ok THEN Return(op, FALSE, "Started") ELSE PostStopBecauseErr(op)
      [] phase = "stoppost_err" -> Return(op, FALSE, "StartErr")
      [] phase = "stop" ->
            /\ sup' = [Idle EXCEPT !.pc = "kill", !.stop_ok = ok]
            /\ ev' = Ev(op, FALSE, "none")
      [] phase = "stoppost" ->
            Return(op, FALSE, IF ok /\ sup.stop_ok THEN "StopOk" ELSE "StopErr")

\* prepare_service: the notification socket and the stdout and stderr pipes
\* are created and stored in the service.
PrepareService(s) ==
    [s EXCEPT !.notifications = TRUE, !.stdout_dup = TRUE, !.stderr_dup = TRUE]

\* A service that is taken for not running.
AlreadyStarted_Never(s) == FALSE

\* Service::start, lines 56-69: the service has a pid or a process group.
AlreadyStarted(s) == s.pid # None \/ s.process_group # None

\* The start is ignored whenever the caller allows it.
IgnoreStart_Always(allow_ignore, c) == allow_ignore

\* Service::start, line 70: the start is left to the socket activation.
IgnoreStart(allow_ignore, c) == allow_ignore /\ c.socket_names

\* Service::start, lines 56-74 and 103-110.
StartCall(allow_ignore) ==
    /\ sup.pc = "idle" /\ ~srvc.poisoned
    /\ nextPid - 1 + StartForks <= MaxProcs
    /\ LET Called(ret) == [Ev("start", FALSE, ret) EXCEPT !.allow_ignore = allow_ignore] IN
       IF AlreadyStarted(srvc)
       THEN /\ sup' = Idle
            /\ ev' = Called("AlreadyRunning")
            /\ UNCHANGED <<srvc, eventfd>>
       ELSE IF IgnoreStart(allow_ignore, conf)
       THEN /\ sup' = Idle
            /\ ev' = Called("WaitingForSocket")
            /\ eventfd' = TRUE
            /\ UNCHANGED srvc
       ELSE /\ srvc' = PrepareService(srvc)
            /\ sup' = IF conf.startpre = <<>>
                      THEN [Idle EXCEPT !.pc = "fork"]
                      ELSE [Idle EXCEPT !.pc = "cmd", !.phase = "startpre", !.cmds = conf.startpre]
            /\ ev' = Called("none")
            /\ UNCHANGED eventfd
    /\ UNCHANGED <<actVars, ioVars, conf, pid_table, procs, nextPid, sock, sent>>

\* An entry of another kind in the helper's place.
HelperEntry_Service == [kind |-> "Service", ok |-> FALSE]

\* run_cmd, lines 215-218: the entry inserted for a spawned helper command.
HelperEntry == [kind |-> "Helper", ok |-> FALSE]

\* run_cmd, lines 212-222: spawn the command and insert its Helper entry
\* under the pid table's lock.
RunCmdSpawn ==
    /\ sup.pc = "cmd"
    /\ procs' = Insert(procs, nextPid, [beh |-> Head(sup.cmds), alive |-> TRUE, ok |-> FALSE])
    /\ pid_table' = Insert(pid_table, nextPid, HelperEntry)
    /\ nextPid' = nextPid + 1
    /\ sup' = [sup EXCEPT !.pc = "cmdwait", !.hpid = nextPid]
    /\ ev' = Ev("spawn", FALSE, "none")
    /\ UNCHANGED <<actVars, ioVars, conf, srvc, sock, sent, eventfd>>

\* The rest of one iteration of run_all_cmds, once run_cmd knows the
\* command's result.
CmdDone(ok) ==
    IF ok /\ Tail(sup.cmds) # <<>>
    THEN /\ sup' = [sup EXCEPT !.pc = "cmd", !.cmds = Tail(@), !.hpid = None]
         /\ ev' = Ev("cmd_end", FALSE, "none")
    ELSE AfterCmds("cmd_end", sup.phase, ok)

\* wait_for_helper_child returns InTime (427-431): the entry is HelperExited;
\* it is removed and run_cmd goes on to line 262.
RunCmdInTime ==
    /\ sup.pc = "cmdwait"
    /\ PhaseTimeout(sup.phase) # "Zero"
    /\ sup.hpid \in DOMAIN pid_table
    /\ pid_table[sup.hpid].kind = "HelperExited"
    /\ pid_table' = Remove(pid_table, sup.hpid)
    /\ CmdDone(pid_table[sup.hpid].ok)
    /\ UNCHANGED <<actVars, ioVars, conf, srvc, procs, nextPid, sock, sent, eventfd>>

\* The child is left alone.
KillChild_Not(ps, p) == ps

\* run_cmd, line 241: child.kill().
KillChild(ps, p) == IF p \in DOMAIN ps THEN [ps EXCEPT ![p].alive = FALSE] ELSE ps

\* wait_for_helper_child returns TimedOut (402-406): the child is killed
\* (241) and its entry removed (262-265).
RunCmdTimedOut ==
    /\ sup.pc = "cmdwait"
    /\ PhaseTimeout(sup.phase) # "None"
    /\ procs' = KillChild(procs, sup.hpid)
    /\ pid_table' = Remove(pid_table, sup.hpid)
    /\ CmdDone(FALSE)
    /\ UNCHANGED <<actVars, ioVars, conf, srvc, nextPid, sock, sent, eventfd>>

\* start_service: the service is Starting from its fork on.
StartService(s) == [s EXCEPT !.status = "Starting"]

\* The pid of the forked child alone.
AfterFork_PidOnly(s, new_pid) == [s EXCEPT !.pid = new_pid]

\* fork_parent.rs 12-13: the pid and the process group of the forked child.
AfterFork(s, new_pid) == [s EXCEPT !.pid = new_pid, !.process_group = -new_pid]

\* The table as it is: the entry is inserted later, under another lock
\* section.
InsertService_Later(t, new_pid) == t

\* Service::start, lines 80-86: the Service entry of the forked child.
InsertService(t, new_pid) == Insert(t, new_pid, [kind |-> "Service", ok |-> FALSE])

\* Service::start, lines 75-88: fork, insert the Service entry and notify the
\* eventfds, under the pid table's lock.
Fork ==
    /\ sup.pc = "fork"
    /\ srvc' = AfterFork(StartService(srvc), nextPid)
    /\ procs' = Insert(procs, nextPid, [beh |-> "service", alive |-> TRUE, ok |-> FALSE])
    /\ pid_table' = InsertService(pid_table, nextPid)
    /\ nextPid' = nextPid + 1
    /\ eventfd' = TRUE
    /\ sup' = [sup EXCEPT !.pc = "wait"]
    /\ ev' = Ev("fork", FALSE, "none")
    /\ UNCHANGED <<actVars, ioVars, conf, sock, sent>>

\* after_fork_parent with the Dbus arm setting the status as the Simple arm
\* does.
AfterForkParentStatus_DbusRunning(srcv_type, status) ==
    IF srcv_type \in {"Simple", "Dbus"} THEN "Running" ELSE status

\* fork_parent.rs 43-75: the status after the Simple arm and after the Dbus
\* arm of the match on srcv_type.
AfterForkParentStatus(srcv_type, status) ==
    IF srcv_type = "Simple" THEN "Running" ELSE status

\* fork_parent.rs 43-46, then lines 98-102 of Service::start.
WaitSimple ==
    /\ sup.pc = "wait" /\ conf.srcv_type = "Simple"
    /\ srvc' = [srvc EXCEPT !.status = AfterForkParentStatus(conf.srcv_type, @)]
    /\ PostStart("wait_simple", FALSE)
    /\ UNCHANGED <<actVars, ioVars, conf, pid_table, procs, nextPid, sock, sent, eventfd>>

\* fork_parent.rs 30-41: one iteration of the loop; the loop is left when the
\* status is Running.
WaitNotify ==
    /\ sup.pc = "wait" /\ conf.srcv_type = "Notify"
    /\ sock # <<>>
    /\ sock' = Tail(sock)
    /\ srvc' = Receive(srvc, Head(sock))
    /\ LET ready == HasReady(srvc.notifications_buffer \o Head(sock)) IN
       IF srvc'.poisoned
       THEN sup' = [sup EXCEPT !.pc = "panicked"] /\ ev' = Ev("wait_notify", ready, "none")
       ELSE IF srvc'.status = "Running"
       THEN PostStart("wait_notify", ready)
       ELSE sup' = sup /\ ev' = Ev("wait_notify", ready, "none")
    /\ UNCHANGED <<actVars, ioVars, conf, pid_table, procs, nextPid, sent, eventfd>>

\* fork_parent.rs 47-75: whatever the wait for the bus name gives, the
\* service is left as it is.
WaitDbus(res) ==
    /\ sup.pc = "wait" /\ conf.srcv_type = "Dbus"
    /\ srvc' = [srvc EXCEPT !.status = AfterForkParentStatus(conf.srcv_type, @)]
    /\ PostStart(res, FALSE)
    /\ UNCHANGED <<actVars, ioVars, conf, pid_table, procs, nextPid, sock, sent, eventfd>>

\* Service::stop, line 114.
StopCall ==
    /\ sup.pc = "idle" /\ ~srvc.poisoned
    /\ nextPid - 1 + StopForks <= MaxProcs
    /\ sup' = IF conf.stop = <<>>
              THEN [Idle EXCEPT !.pc = "kill"]
              ELSE [Idle EXCEPT !.pc = "cmd", !.phase = "stop", !.cmds = conf.stop]
    /\ ev' = [Ev("stop", FALSE, "none") EXCEPT !.again = (ev.ret = "StopOk")]
    /\ UNCHANGED <<actVars, ioVars, conf, srvc, pid_table, procs, nextPid, sock, sent, eventfd>>

\* The process group is signalled whether the service has one or not.
SendsKill_Always(s) == TRUE

\* Service::stop, line 115: SIGKILL is sent when the service has a process
\* group.
SendsKill(s) == s.process_group # None

\* Service::stop, lines 115-146: kill the process group, clear pid and
\* process_group, run run_poststop.
StopKill ==
    /\ sup.pc = "kill"
    /\ procs' = IF SendsKill(srvc) /\ (-srvc.process_group) \in DOMAIN procs
                THEN [procs EXCEPT ![-srvc.process_group].alive = FALSE]
                ELSE procs
    /\ srvc' = [srvc EXCEPT !.pid = None, !.process_group = None]
    /\ LET op == IF SendsKill(srvc) THEN "kill" ELSE "nokill" IN
       /\ sup' = IF RunsPostStop
                 THEN [Idle EXCEPT !.pc = "cmd", !.phase = "stoppost", !.cmds = conf.stoppost,
                                   !.stop_ok = sup.stop_ok]
                 ELSE Idle
       /\ ev' = [Ev(op, FALSE, IF RunsPostStop THEN "none"
                                ELSE IF sup.stop_ok THEN "StopOk" ELSE "StopErr")
                   EXCEPT !.again = ev.again /\ ev.op = "stop"]
    /\ UNCHANGED <<actVars, ioVars, conf, pid_table, nextPid, sock, sent, eventfd>>

\* A process exits by itself: a helper command with its exit status, the
\* service process with any.
ProcExit(p, ok) ==
    /\ p \in DOMAIN procs /\ procs[p].alive
    /\ procs[p].beh \in {"service"} \cup (IF ok THEN {"ok"} ELSE {"fail"})
    /\ procs' = [procs EXCEPT ![p].alive = FALSE, ![p].ok = ok]
    /\ ev' = Ev("env", FALSE, "none")
    /\ UNCHANGED <<actVars, ioVars, conf, srvc, pid_table, nextPid, sock, sent, eventfd, sup>>

\* The service process sends a datagram to its NOTIFY_SOCKET.
Send(p, dgram) ==
    /\ p \in DOMAIN procs /\ procs[p].alive /\ procs[p].beh = "service"
    /\ sent < MaxDgrams
    /\ sent' = sent + 1
    /\ sock' = Append(sock, dgram)
    /\ ev' = Ev("env", FALSE, "none")
    /\ UNCHANGED <<actVars, ioVars, conf, srvc, pid_table, procs, nextPid, eventfd, sup>>

\* The reaper, for the exited process p whose entry is a Helper or absent.
ReapHelper(p) ==
    /\ p \in DOMAIN procs /\ ~procs[p].alive
    /\ p \in DOMAIN pid_table => pid_table[p].kind = "Helper"
    /\ procs' = Remove(procs, p)
    /\ pid_table' = IF p \in DOMAIN pid_table
                    THEN [pid_table EXCEPT ![p] = [kind |-> "HelperExited", ok |-> procs[p].ok]]
                    ELSE pid_table
    /\ ev' = Ev("env", FALSE, "none")
    /\ UNCHANGED <<actVars, ioVars, conf, srvc, nextPid, sock, sent, eventfd, sup>>

\* The reaper, for the exited process p whose entry is a Service: the entry
\* is removed and the service-exit handling runs, with the unit locked.
ReapService(p) ==
    /\ p \in DOMAIN procs /\ ~procs[p].alive
    /\ p \in DOMAIN pid_table /\ pid_table[p].kind = "Service"
    /\ sup.pc = "idle" /\ ~srvc.poisoned
    /\ procs' = Remove(procs, p)
    /\ pid_table' = Remove(pid_table, p)
    /\ srvc' = [srvc EXCEPT !.status = "Stopped", !.pid = None, !.process_group = None]
    /\ eventfd' = TRUE
    /\ ev' = Ev("env", FALSE, "none")
    /\ UNCHANGED <<actVars, ioVars, conf, nextPid, sock, sent, sup>>

\* handle_all_streams, lines 46-50, whatever the loop's position: the
\* eventfd fired and is reset.
MuxReset ==
    /\ eventfd
    /\ eventfd' = FALSE
    /\ ev' = Ev("env", FALSE, "none")
    /\ UNCHANGED <<actVars, ioVars, conf, srvc, pid_table, procs, nextPid, sock, sent, sup>>

\* handle_all_streams, lines 53-69, whatever the loop's position: a datagram
\* of the service's socket is received and handled, with the unit locked.
MuxRecv ==
    /\ sup.pc = "idle" /\ ~srvc.poisoned
    /\ srvc.notifications /\ sock # <<>>
    /\ sock' = Tail(sock)
    /\ srvc' = Receive(srvc, Head(sock))
    /\ ev' = Ev("mux_recv", HasReady(srvc.notifications_buffer \o Head(sock)), "none")
    /\ UNCHANGED <<actVars, ioVars, conf, pid_table, procs, nextPid, sent, eventfd, sup>>

SvcNext ==
    \/ \E allow_ignore \in BOOLEAN : StartCall(allow_ignore)
    \/ RunCmdSpawn
    \/ RunCmdInTime
    \/ RunCmdTimedOut
    \/ Fork
    \/ WaitSimple
    \/ WaitNotify
    \/ \E res \in {"dbus_ok", "dbus_timedout", "dbus_err"} : WaitDbus(res)
    \/ StopCall
    \/ StopKill
    \/ \E p \in DOMAIN procs : \E ok \in BOOLEAN : ProcExit(p, ok)
    \/ \E p \in DOMAIN procs : \E dgram \in Datagrams : Send(p, dgram)
    \/ \E p \in DOMAIN procs : ReapHelper(p)
    \/ \E p \in DOMAIN procs : ReapService(p)
    \/ MuxReset
    \/ MuxRecv

\* The behaviours of a helper command: it exits with success, exits with a
\* failure, or runs until it is killed.
Commands == {"ok", "fail", "hang"}

\* The command lists of a service: no helper command, or one command in one
\* of the lists.
NoCmds == [startpre |-> <<>>, startpost |-> <<>>, stop |-> <<>>, stoppost |-> <<>>]

OneCmd ==
    {[NoCmds EXCEPT ![l] = <<c>>] :
        l \in {"startpre", "startpost", "stop", "stoppost"}, c \in Commands}

\* The timeouts of a service.
NoTimeouts == [starttimeout |-> "Unset", stoptimeout |-> "Unset", generaltimeout |-> "Unset"]

Timeouts ==
    { NoTimeouts,
      [starttimeout |-> "Unset", stoptimeout |-> "Unset", generaltimeout |-> "Duration"],
      [starttimeout |-> "Infinity", stoptimeout |-> "Zero", generaltimeout |-> "Duration"] }

Config(ty, sn, c, t) ==
    [srcv_type |-> ty, socket_names |-> sn,
     startpre |-> c.startpre, startpost |-> c.startpost, stop |-> c.stop, stoppost |-> c.stoppost,
     starttimeout |-> t.starttimeout, stoptimeout |-> t.stoptimeout,
     generaltimeout |-> t.generaltimeout]

\* A startpre command and a stoppost command.
PreAndStopPost ==
    {[NoCmds EXCEPT !.startpre = <<c>>, !.stoppost = <<"ok">>] : c \in {"ok", "fail"}}

\* The services looked at: of every type; without helper commands, with and
\* without sockets; or with one helper command, under each of the timeouts;
\* or with a startpre and a stoppost command.
Configs ==
    {Config(ty, sn, NoCmds, NoTimeouts) : ty \in {"Simple", "Notify", "Dbus"}, sn \in BOOLEAN}
    \cup {Config(ty, FALSE, c, t) : ty \in {"Simple", "Notify", "Dbus"}, c \in OneCmd, t \in Timeouts}
    \cup {Config("Simple", FALSE, c, NoTimeouts) : c \in PreAndStopPost}

\* A service without commands, sockets and timeouts.
NoService == Config("Simple", FALSE, NoCmds, NoTimeouts)

\* The Service as the unit loader builds it.
NewService ==
    [pid |-> None, process_group |-> None, status |-> "NeverRan", signaled_ready |-> FALSE,
     status_msgs |-> <<>>, notifications |-> FALSE, notifications_buffer |-> <<>>,
     stdout_dup |-> FALSE, stderr_dup |-> FALSE, poisoned |-> FALSE]

\* No byte stream is fed to the parser.
NoParse == [stream |-> <<>>, unread |-> <<>>, handled |-> <<>>, chunks |-> <<>>]

\* No child writes to a pipe.
NoPipe == [unwritten |-> <<>>, buf |-> <<>>, read |-> <<>>, wr_open |-> FALSE, rd_open |-> FALSE]

\* The stdout multiplexer before its first iteration.
NoStd ==
    [kind |-> "stdout", pc |-> "snapshot", snap |-> FALSE, fd_ready |-> FALSE,
     ev_ready |-> FALSE, eventfd |-> FALSE, eof |-> FALSE, err |-> FALSE]

\* The notification multiplexer before its first iteration.
NoMux == [pc |-> "snapshot", snap |-> FALSE, fd_ready |-> FALSE, ev_ready |-> FALSE]

\* The stdout and stderr streams' state while they are not looked at.
StdRest ==
    /\ pipe = NoPipe
    /\ std = NoStd
    /\ out = <<>>

\* The streams' state while the activator is looked at.
IoRest ==
    /\ parse = NoParse
    /\ StdRest
    /\ mux = NoMux

\* The supervisor's state while the activator is looked at alone.
SvcRest ==
    /\ conf = NoService
    /\ srvc = NewService
    /\ pid_table = <<>>
    /\ procs = <<>>
    /\ nextPid = 1
    /\ sock = <<>>
    /\ sent = 0
    /\ eventfd = FALSE
    /\ sup = Idle
    /\ ev = Ev("init", FALSE, "none")

\* The activator's state while one service is looked at alone.
ActRest ==
    /\ unit_table = {1}
    /\ after = [u \in unit_table |-> {}]
    /\ needs = [u \in unit_table |-> {}]
    /\ fails = {}
    /\ mainTodo = <<>>
    /\ mainPc = "returned"
    /\ queue = <<>>
    /\ running = EmptyBag
    /\ started_ids = <<>>
    /\ activations = [u \in unit_table |-> 0]
    /\ errors = {}

InitSvc ==
    /\ conf \in Configs
    /\ srvc = NewService
    /\ pid_table = <<>>
    /\ procs = <<>>
    /\ nextPid = 1
    /\ sock = <<>>
    /\ sent = 0
    /\ eventfd = FALSE
    /\ sup = Idle
    /\ ev = Ev("init", FALSE, "none")
    /\ ActRest
    /\ IoRest

SpecSvc == InitSvc /\ [][SvcNext]_vars

\* ------------------------------------------------------------------------
\* The notification multiplexer's loop, step by step, beside the supervisor
\* ------------------------------------------------------------------------

\* handle_all_streams, lines 31-41: the snapshot of the notification
\* sockets; collect_from_srvc locks the unit.
StreamsSnapshot ==
    /\ mux.pc = "snapshot"
    /\ sup.pc = "idle" /\ ~srvc.poisoned
    /\ mux' = [mux EXCEPT !.pc = "select", !.snap = srvc.notifications]
    /\ ev' = Ev("mux_snapshot", FALSE, "none")
    /\ UNCHANGED <<actVars, parse, stdVars, conf, srvc, pid_table, procs, nextPid, sock, sent,
                   eventfd, sup>>

\* handle_all_streams, lines 43-45: select returns with the fds that are
\* ready, the eventfd or the socket of the snapshot.
StreamsSelect ==
    /\ mux.pc = "select"
    /\ eventfd \/ (mux.snap /\ sock # <<>>)
    /\ mux' = [mux EXCEPT !.pc = "woke", !.fd_ready = mux.snap /\ sock # <<>>,
                          !.ev_ready = eventfd]
    /\ ev' = Ev("mux_select", FALSE, "none")
    /\ UNCHANGED <<actVars, parse, stdVars, conf, srvc, pid_table, procs, nextPid, sock, sent,
                   eventfd, sup>>

\* handle_all_streams, lines 46-50: the eventfd fired and is reset.
StreamsReset ==
    /\ mux.pc = "woke" /\ mux.ev_ready
    /\ eventfd' = FALSE
    /\ mux' = [mux EXCEPT !.ev_ready = FALSE]
    /\ ev' = Ev("env", FALSE, "none")
    /\ UNCHANGED <<actVars, parse, stdVars, conf, srvc, pid_table, procs, nextPid, sock, sent, sup>>

\* handle_all_streams, lines 51-73: the socket, when it is ready, is read
\* and its bytes are handled, with the unit locked; the iteration ends.
StreamsRecv ==
    /\ mux.pc = "woke" /\ ~mux.ev_ready
    /\ mux' = [mux EXCEPT !.pc = "snapshot", !.snap = FALSE, !.fd_ready = FALSE]
    /\ IF mux.fd_ready
       THEN /\ sup.pc = "idle" /\ ~srvc.poisoned
            /\ sock # <<>>
            /\ sock' = Tail(sock)
            /\ srvc' = Receive(srvc, Head(sock))
            /\ ev' = Ev("mux_recv", HasReady(srvc.notifications_buffer \o Head(sock)), "none")
       ELSE /\ ev' = Ev("mux_recv", FALSE, "none")
            /\ UNCHANGED <<sock, srvc>>
    /\ UNCHANGED <<actVars, parse, stdVars, conf, pid_table, procs, nextPid, sent, eventfd, sup>>

\* The steps of the thread that called Service::start or Service::stop.
SupNext ==
    \/ RunCmdSpawn
    \/ RunCmdInTime
    \/ RunCmdTimedOut
    \/ Fork
    \/ WaitSimple
    \/ WaitNotify
    \/ \E res \in {"dbus_ok", "dbus_timedout", "dbus_err"} : WaitDbus(res)
    \/ StopKill

\* The steps of the thread of handle_all_streams.
StreamsNext ==
    \/ StreamsSnapshot
    \/ StreamsSelect
    \/ StreamsReset
    \/ StreamsRecv

\* The steps of the reaper.
ReapNext ==
    \/ \E p \in DOMAIN procs : ReapHelper(p)
    \/ \E p \in DOMAIN procs : ReapService(p)

LoopNext ==
    \/ \E allow_ignore \in BOOLEAN : StartCall(allow_ignore)
    \/ StopCall
    \/ SupNext
    \/ StreamsNext
    \/ ReapNext
    \/ \E p \in DOMAIN procs : \E ok \in BOOLEAN : ProcExit(p, ok)
    \/ \E p \in DOMAIN procs : \E dgram \in Datagrams : Send(p, dgram)

\* The services looked at beside the loop: of every type, without helper
\* commands, and a Simple one with a startpre command and a time-out.
LoopConfigs ==
    {Config(ty, FALSE, NoCmds, NoTimeouts) : ty \in {"Simple", "Notify", "Dbus"}}
    \cup {Config("Simple", FALSE, [NoCmds EXCEPT !.startpre = <<c>>],
                  [NoTimeouts EXCEPT !.generaltimeout = "Duration"]) : c \in {"ok", "hang"}}

InitLoop ==
    /\ conf \in LoopConfigs
    /\ srvc = NewService
    /\ pid_table = <<>>
    /\ procs = <<>>
    /\ nextPid = 1
    /\ sock = <<>>
    /\ sent = 0
    /\ eventfd = FALSE
    /\ sup = Idle
    /\ ev = Ev("init", FALSE, "none")
    /\ ActRest
    /\ IoRest

SpecLoop == InitLoop /\ [][LoopNext]_vars

\* The threads of the supervisor, of the multiplexer and of the reaper are
\* scheduled again and again, and a thread that finds the unit's lock free
\* again and again takes it.
SpecLoopFair ==
    SpecLoop /\ WF_vars(SupNext) /\ SF_vars(StreamsNext) /\ SF_vars(ReapNext)

\* ------------------------------------------------------------------------
\* The notification parser fed with a byte stream cut into chunks
\* ------------------------------------------------------------------------

\* The symbols of the byte streams: the two keys the handler knows, another
\* text, and the two separators.  A key is one symbol: the parser looks at
\* the text of a line only once the line is complete.
Symbols == {"READY", "STATUS", "x", EQ, NL}

RECURSIVE SeqsUpTo(_, _)
SeqsUpTo(S, n) ==
    IF n = 0 THEN {<<>>}
    ELSE LET R == SeqsUpTo(S, n - 1) IN R \cup {Append(r, x) : r \in R, x \in S}

\* notification_handler.rs 241-251: the lines handle_notifications_from_buffer
\* passes to handle_notification_message, in the order of the calls.
RECURSIVE HandledLines(_)
HandledLines(s) ==
    LET i == Find(s.notifications_buffer, NL) IN
    IF i = 0 \/ s.poisoned THEN <<>>
    ELSE <<SubSeq(s.notifications_buffer, 1, i - 1)>> \o
         HandledLines(
            HandleNotificationMessage(
                SubSeq(s.notifications_buffer, 1, i - 1),
                [s EXCEPT !.notifications_buffer = SubSeq(@, i + 1, Len(@))]))

\* One recv of n bytes of the stream: push_str and
\* handle_notifications_from_buffer (notification_handler.rs 61-68,
\* fork_parent.rs 31-34).
ParseRecv(n) ==
    /\ ~srvc.poisoned
    /\ n \in 1..Len(parse.unread)
    /\ LET chunk == SubSeq(parse.unread, 1, n) IN
       /\ srvc' = Receive(srvc, chunk)
       /\ parse' = [parse EXCEPT
                        !.unread = SubSeq(@, n + 1, Len(@)),
                        !.handled = @ \o HandledLines(
                            [srvc EXCEPT !.notifications_buffer = @ \o chunk]),
                        !.chunks = Append(@, n)]
    /\ UNCHANGED <<actVars, stdVars, mux, conf, pid_table, procs, nextPid, sock, sent, eventfd,
                   sup, ev>>

ParseNext ==
    \/ \E n \in 1..MaxStream : ParseRecv(n)

InitParse ==
    /\ parse \in {[NoParse EXCEPT !.stream = b, !.unread = b] : b \in SeqsUpTo(Symbols, MaxStream)}
    /\ StdRest
    /\ mux = NoMux
    /\ SvcRest
    /\ ActRest

SpecParse == InitParse /\ [][ParseNext]_vars

\* ------------------------------------------------------------------------
\* A service that keeps sending STATUS notifications
\* ------------------------------------------------------------------------

\* What one recv on the notification socket can return: a piece of a STATUS
\* line, a whole STATUS line, a READY line.
StatusChunks ==
    {<<"STATUS">>, <<EQ, "booting">>, <<NL>>, <<"STATUS", EQ, "booting", NL>>,
     <<"READY", EQ, "1", NL>>}

\* One recv on the notification socket: push_str and
\* handle_notifications_from_buffer (notification_handler.rs 61-68).
StatusRecv(chunk) ==
    /\ ~srvc.poisoned
    /\ Len(srvc.status_msgs) < MaxStatus
    /\ Len(srvc.notifications_buffer) + Len(chunk) <= MaxStream
    /\ srvc' = Receive(srvc, chunk)
    /\ UNCHANGED <<actVars, ioVars, conf, pid_table, procs, nextPid, sock, sent, eventfd,
                   sup, ev>>

StatusNext ==
    \/ \E chunk \in StatusChunks : StatusRecv(chunk)

InitStatus ==
    /\ IoRest
    /\ SvcRest
    /\ ActRest

SpecStatus == InitStatus /\ [][StatusNext]_vars

\* ------------------------------------------------------------------------
\* The stdout and stderr multiplexers: handle_all_std_out, handle_all_std_err
\* ------------------------------------------------------------------------

\* The texts a child writes to its stdout (stderr).
StdSymbols == {"hello", "world", "!", NL}

\* A child that writes "hello\nworld!\n".
HelloWorld == <<"hello", NL, "world", "!", NL>>

\* notification_handler.rs 113-118 and 186-192: the service-unique prefix,
\* for the unit named P.
Prefix(kind) == IF kind = "stdout" THEN <<"[P] ">> ELSE <<"[P][STDERR] ">>

\* notification_handler.rs 125-134 and 199-208: every segment that is not
\* empty is written with the prefix before it and a newline after it.
RECURSIVE WriteLines(_, _)
WriteLines(prefix, lines) ==
    IF lines = <<>> THEN <<>>
    ELSE (IF Head(lines) = <<>> THEN <<>> ELSE <<prefix \o Head(lines) \o <<NL>>>>)
         \o WriteLines(prefix, Tail(lines))

\* notification_handler.rs 121-134 and 195-208: what one read of bytes adds
\* to the output; the bytes are split at the newlines.
Emit(kind, bytes) == WriteLines(Prefix(kind), IF bytes = <<>> THEN <<>> ELSE Split(bytes, NL))

\* The read-end the loop of this kind watches.
StdDup == IF std.kind = "stdout" THEN srvc.stdout_dup ELSE srvc.stderr_dup

\* notification_handler.rs 85-89 and 149-162: the snapshot of the fds.
StdSnapshot ==
    /\ std.pc = "snapshot" /\ ~srvc.poisoned
    /\ std' = [std EXCEPT !.pc = "select", !.snap = StdDup]
    /\ UNCHANGED <<actVars, svcVars, parse, mux, pipe, out>>

\* The read-end is readable: bytes are in the pipe, or the child has closed
\* its end.
Readable == pipe.buf # <<>> \/ ~pipe.wr_open

\* notification_handler.rs 91-98 and 164-171: select returns with the fds
\* that are ready; it fails when a fd of the set is closed (139-141,
\* 213-215), and the loop starts over.
StdSelect ==
    /\ std.pc = "select"
    /\ IF std.snap /\ ~pipe.rd_open
       THEN std' = [std EXCEPT !.pc = "snapshot", !.fd_ready = FALSE, !.ev_ready = FALSE]
       ELSE /\ std.eventfd \/ (std.snap /\ Readable)
            /\ std' = [std EXCEPT !.pc = "woke", !.fd_ready = std.snap /\ Readable,
                                  !.ev_ready = std.eventfd]
    /\ UNCHANGED <<actVars, svcVars, parse, mux, pipe, out>>

\* notification_handler.rs 100-137 and 173-211: the eventfd is reset when it
\* fired; the ready fd is read with the unit locked, and the lines of the
\* bytes read are written.  The unwrap of a failed read panics.
StdRead ==
    /\ std.pc = "woke" /\ (std.fd_ready => ~srvc.poisoned)
    /\ LET reset == IF std.ev_ready THEN FALSE ELSE std.eventfd IN
       IF ~std.fd_ready
       THEN /\ std' = [std EXCEPT !.pc = "snapshot", !.eventfd = reset]
            /\ UNCHANGED <<srvc, pipe, out>>
       ELSE IF ~pipe.rd_open
       THEN /\ std' = [std EXCEPT !.pc = "panicked", !.eventfd = reset, !.err = TRUE]
            /\ srvc' = [srvc EXCEPT !.poisoned = TRUE]
            /\ UNCHANGED <<pipe, out>>
       ELSE /\ Readable
            /\ std' = [std EXCEPT !.pc = "snapshot", !.eventfd = reset,
                                  !.eof = @ \/ pipe.buf = <<>>]
            /\ pipe' = [pipe EXCEPT !.buf = <<>>, !.read = @ \o pipe.buf]
            /\ out' = out \o Emit(std.kind, pipe.buf)
            /\ srvc' = srvc
    /\ UNCHANGED <<actVars, conf, pid_table, procs, nextPid, sock, sent, eventfd, sup, ev, parse,
                   mux>>

\* The child writes the next n symbols of its output to the pipe.
ChildWrite(n) ==
    /\ pipe.wr_open
    /\ n \in 1..Len(pipe.unwritten)
    /\ pipe' = [pipe EXCEPT !.buf = @ \o SubSeq(pipe.unwritten, 1, n),
                            !.unwritten = SubSeq(@, n + 1, Len(@))]
    /\ UNCHANGED <<actVars, svcVars, parse, mux, std, out>>

\* The child exits: its end of the pipe is closed.
ChildClose ==
    /\ pipe.wr_open
    /\ pipe' = [pipe EXCEPT !.wr_open = FALSE, !.unwritten = <<>>]
    /\ UNCHANGED <<actVars, svcVars, parse, mux, std, out>>

\* The read-end is closed when the service is torn down.
CloseFd ==
    /\ pipe.rd_open
    /\ pipe' = [pipe EXCEPT !.rd_open = FALSE]
    /\ UNCHANGED <<actVars, svcVars, parse, mux, std, out>>

\* notify_event_fds posts the loop's eventfd.
StdNotify ==
    /\ ~std.eventfd
    /\ std' = [std EXCEPT !.eventfd = TRUE]
    /\ UNCHANGED <<actVars, svcVars, parse, mux, pipe, out>>

StdNext ==
    \/ StdSnapshot
    \/ StdSelect
    \/ StdRead
    \/ \E n \in 1..MaxStream + 1 : ChildWrite(n)
    \/ ChildClose
    \/ CloseFd
    \/ StdNotify

\* A started service whose child is about to write to its stdout (stderr).
InitStd ==
    /\ conf = NoService
    /\ srvc = PrepareService(NewService)
    /\ pid_table = <<>>
    /\ procs = <<>>
    /\ nextPid = 1
    /\ sock = <<>>
    /\ sent = 0
    /\ eventfd = FALSE
    /\ sup = Idle
    /\ ev = Ev("init", FALSE, "none")
    /\ ActRest
    /\ parse = NoParse
    /\ mux = NoMux
    /\ pipe \in {[NoPipe EXCEPT !.unwritten = b, !.wr_open = TRUE, !.rd_open = TRUE] :
                    b \in SeqsUpTo(StdSymbols, MaxStream) \cup {HelloWorld}}
    /\ std \in {[NoStd EXCEPT !.kind = k] : k \in {"stdout", "stderr"}}
    /\ out = <<>>

SpecStd == InitStd /\ [][StdNext]_vars

\* The socket units the units may need, for the graph g: one service of the
\* table needs sockets, and it is ordered after the sockets it needs.
NeedsOf(g) ==
    UNION {{[u \in DOMAIN g |-> IF u = s THEN K ELSE {}] : K \in SUBSET (g[s] \ {s})} :
           s \in DOMAIN g}

\* As NeedsOf, with at most one socket needed.
NeedsOne(g) == {n \in NeedsOf(g) : \A u \in DOMAIN g : Cardinality(n[u]) <= 1}

\* The dependency graphs in which a unit is only after units of a lower id.
Forward(T) == {g \in [T -> SUBSET T] : \A u \in T : \A d \in g[u] : d < u}

\* At most one unit whose activation fails.
FailsOf(T) == {{}} \cup {{u} : u \in T}

InitJobs ==
    /\ mainTodo = SetToSeq(RootUnits)
    /\ mainPc = IF RootUnits = {} THEN "join" ELSE "submit"
    /\ queue = <<>>
    /\ running = EmptyBag
    /\ started_ids = <<>>
    /\ activations = [u \in unit_table |-> 0]
    /\ errors = {}

\* A forward graph in which one unit may also be after itself or after one
\* unit of a higher id (a cycle).
WithCycle(T) ==
    Forward(T) \cup
    UNION {{[g EXCEPT ![e[1]] = @ \cup {e[2]}] : g \in Forward(T)} :
           e \in {p \in T \X T : p[2] >= p[1]}}

\* The dependency graphs and inputs of the activator: a graph with at most
\* one cycle; or a forward graph with a service that needs sockets; or a
\* forward graph with a unit whose activation fails.
InitAct ==
    /\ unit_table = 1..NUnits
    /\ \/ /\ after \in WithCycle(unit_table)
          /\ needs = [u \in unit_table |-> {}]
          /\ fails = {}
       \/ /\ after \in Forward(unit_table)
          /\ needs \in NeedsOf(after)
          /\ fails = {}
       \/ /\ after \in Forward(unit_table)
          /\ needs = [u \in unit_table |-> {}]
          /\ fails \in FailsOf(unit_table)
    /\ InitJobs
    /\ SvcRest
    /\ IoRest

Spec == InitAct /\ [][ActNext]_vars

InitWide ==
    /\ unit_table = 1..NWide
    /\ \/ /\ after \in WithCycle(unit_table)
          /\ fails = {}
       \/ /\ after \in Forward(unit_table)
          /\ fails \in FailsOf(unit_table)
    /\ needs \in NeedsOne(after)
    /\ InitJobs
    /\ SvcRest
    /\ IoRest

SpecWide == InitWide /\ [][ActNext]_vars

\* ------------------------------------------------------------------------
\* Properties of the activator
\* ------------------------------------------------------------------------

RECURSIVE Closure(_, _)
\* The units reachable from the set S along the edges of g.
Closure(g, S) ==
    LET Q == S \cup UNION {g[x] : x \in S}
    IN IF Q = S THEN S ELSE Closure(g, Q)

\* The units u depends on, transitively through after.
Deps(u) == Closure(after, after[u])

OnCycle(u) == u \in Deps(u)
HasCycle == \E u \in unit_table : OnCycle(u)
Acyclic == ~HasCycle

\* tpool.join() has returned, or some thread of the activator can take a step.
NotStuck == mainPc = "returned" \/ ENABLED ActNext

\* C1: Unit::activate is never invoked for a unit v before every unit of
\* v.install.after has been appended to started_ids (started_ids only grows,
\* so a unit activated at some time has all its predecessors in started_ids
\* from then on).
C1_AfterOrdering ==
    \A v \in unit_table : activations[v] > 0 => after[v] \subseteq Started

\* A unit with two predecessors has been activated.
C1_Witness ==
    \E v \in unit_table : activations[v] > 0 /\ Cardinality(after[v]) = 2

\* C2: during one run of activate_units, Unit::activate is invoked at most
\* once per unit and each id is appended to started_ids at most once.
C2_AtMostOnce ==
    \A u \in unit_table : activations[u] <= 1 /\ Count(started_ids, u) <= 1

\* C3: for an acyclic graph in which every Unit::activate has succeeded, the
\* activator never stops before every unit is in started_ids and
\* activate_units has returned.
C3_Progress ==
    (Acyclic /\ errors = {} /\ ~ENABLED ActNext)
        => (mainPc = "returned" /\ unit_table \subseteq Started)

\* C4: with a cycle in the after relation, no unit on a cycle and no unit
\* that is after one of them is ever activated or appended to started_ids,
\* and the activator never stops before activate_units has returned.
C4_CycleNoProgressNoDeadlock ==
    HasCycle =>
        /\ \A v \in unit_table :
              (OnCycle(v) \/ \E u \in after[v] : OnCycle(u))
                  => (activations[v] = 0 /\ v \notin Started)
        /\ NotStuck

\* C5: when the activation of a unit has returned an error, the activator
\* never stops before activate_units has returned and every unit that does
\* not depend on a failed unit is in started_ids.
C5_ErrorDoesNotAbort ==
    (Acyclic /\ errors # {} /\ ~ENABLED ActNext)
        => /\ mainPc = "returned"
           /\ \A w \in unit_table :
                 (w \notin errors /\ Deps(w) \cap errors = {}) => w \in Started

\* C6: no set of activate_unit jobs in which every job waits for a unit lock
\* held by a job of the set.
C6_DeadlockFree ==
    ~ \E D \in SUBSET Jobs :
        /\ D # {}
        /\ \A j \in D : /\ Wants(j) # {}
                        /\ Wants(j) \subseteq UNION {HeldBy(k) : k \in D}


\* ------------------------------------------------------------------------
\* Properties of the service supervisor
\* ------------------------------------------------------------------------

\* The pids whose entry in the pid table is a Service entry of the service.
ServiceEntries == {p \in DOMAIN pid_table : pid_table[p].kind = "Service"}

\* C7: whenever no thread is inside start or stop of the service (its lock is
\* free), the service's pid is set if and only if the pid table holds a
\* Service entry for it, and the table holds at most one such entry.
C7_PidIffServiceEntry ==
    sup.pc = "idle" =>
        /\ srvc.pid # None <=> ServiceEntries # {}
        /\ Cardinality(ServiceEntries) <= 1

\* C8: a step changes the status to Running only if it is the step after the
\* fork of a Simple service, the handling of a READY line of a Notify
\* service, or the step of a Dbus service whose bus name was observed.
C8_RunningOnlyThreeWays ==
    [][(srvc.status # "Running" /\ srvc'.status = "Running") =>
          \/ conf.srcv_type = "Simple" /\ ev'.op = "wait_simple" /\ sup.pc = "wait"
          \/ conf.srcv_type = "Notify" /\ ev'.ready
          \/ conf.srcv_type = "Dbus" /\ ev'.op = "dbus_ok"]_vars

\* A Simple service has become Running in the step after its fork.
C8_Witness ==
    /\ conf.srcv_type = "Simple"
    /\ ev.op = "wait_simple"
    /\ srvc.status = "Running"
    /\ srvc.pid # None

\* C9: a step that handles a notification line with key READY leaves
\* signaled_ready true and, when the status was Starting, the status Running.
C9_ReadyMakesRunning ==
    [][(ev'.op \in {"wait_notify", "mux_recv"} /\ ev'.ready) =>
          /\ srvc'.signaled_ready
          /\ srvc.status = "Starting" => srvc'.status = "Running"]_vars

\* C10: once the readiness wait of a Notify service has handled a READY line,
\* the wait is over.
C10_ReadyEndsWait ==
    (ev.op = "wait_notify" /\ ev.ready) => sup.pc # "wait"

\* ------------------------------------------------------------------------
\* Properties of the notification parser
\* ------------------------------------------------------------------------

\* The part of the stream received so far.
Received == SubSeq(parse.stream, 1, Len(parse.stream) - Len(parse.unread))

C12_PartialTailJoined ==
    pipe.wr_open => out = WriteLines(Prefix(std.kind), Lines(pipe.read))

\* C13: once a read of the read-end has returned 0 bytes, no snapshot holds
\* the fd any more.
C13_EofFdDropped ==
    (std.eof /\ std.pc \in {"select", "woke"}) => ~std.snap

\* C14: a read that fails does not stop the loop.
C14_ReadErrorNotFatal ==
    std.pc # "panicked"

\* C15: once Service::start has forked a service, inserted its entry and
\* posted the eventfd, the loop of handle_all_streams takes a snapshot that
\* holds the service's socket, wherever the loop was; a Notify service is
\* taken to signal its readiness.
C15_WakeupNotLost ==
    (conf.srcv_type = "Notify" => <>srvc.signaled_ready)
        => ((ev.op = "fork") ~> (ev.op = "mux_snapshot" /\ mux.snap))

\* ------------------------------------------------------------------------
\* Properties of Service::start, Service::stop and run_cmd
\* ------------------------------------------------------------------------

\* A step that is a call of Service::start.
StartStep == sup.pc = "idle" /\ ev'.op = "start" /\ (ev' # ev \/ sup' # sup)

\* C16: a call of start on a service whose pid or process_group is set
\* returns an error and has no effect: no fd, no helper, no fork, the pid
\* table as it was, no wake-up.
C16_AlreadyStartedNoEffect ==
    [][(StartStep /\ (srvc.pid # None \/ srvc.process_group # None)) =>
          /\ ev'.ret = "AlreadyRunning"
          /\ sup' = Idle
          /\ UNCHANGED <<srvc, pid_table, procs, nextPid, sock, eventfd>>]_vars

\* A start on a running service has returned its error.
C16_Witness ==
    /\ ev.op = "start" /\ ev.ret = "AlreadyRunning"
    /\ srvc.pid # None
    /\ srvc.pid \in DOMAIN pid_table

\* C17: a call of start with allow_ignore on a service with socket
\* dependencies returns WaitingForSocket and prepares no fd, runs no helper,
\* forks nothing and inserts no entry; every other call on a service that is
\* not started prepares the fds and goes on to the helpers and the fork, and
\* when it returns Started the service has its pid and its Service entry.
C17_IgnoreOnlyWithSockets ==
    [][/\ (StartStep /\ srvc.pid = None /\ srvc.process_group = None) =>
             IF ev'.allow_ignore /\ conf.socket_names
             THEN /\ ev'.ret = "WaitingForSocket"
                  /\ sup' = Idle
                  /\ UNCHANGED <<srvc, pid_table, procs, nextPid, sock>>
             ELSE /\ ev'.ret = "none"
                  /\ srvc' = PrepareService(srvc)
                  /\ sup'.pc \in {"cmd", "fork"}
       /\ (sup.pc # "idle" /\ ev'.ret = "Started") =>
             /\ srvc'.notifications /\ srvc'.stdout_dup /\ srvc'.stderr_dup
             /\ srvc'.pid \in DOMAIN pid_table'
             /\ pid_table'[srvc'.pid].kind = "Service"]_vars

\* A start with allow_ignore on a service with sockets has returned
\* WaitingForSocket.
C17_Witness ==
    /\ ev.op = "start" /\ ev.ret = "WaitingForSocket" /\ ev.allow_ignore
    /\ conf.socket_names
    /\ srvc = NewService
    /\ pid_table = <<>>

\* C18: when start returns its error after a startpre or startpost command
\* failed, the stoppost commands that are configured have been run.
C18_StopPostAfterFailure ==
    [][(sup.pc # "idle" /\ ev'.ret = "StartErr" /\ conf.stoppost # <<>>) =>
          sup.phase = "stoppost_err"]_vars

\* The helper's entry shows that it has exited.
HelperExited == sup.hpid \in DOMAIN pid_table /\ pid_table[sup.hpid].kind = "HelperExited"

\* What a failed command of the phase leads to.
CommandFailed ==
    CASE sup.phase \in {"startpre", "startpost"} ->
            \/ sup'.pc = "cmd" /\ sup'.phase = "stoppost_err"
            \/ sup'.pc = "idle" /\ ev'.ret = "StartErr"
      [] sup.phase = "stoppost_err" -> sup'.pc = "idle" /\ ev'.ret = "StartErr"
      [] sup.phase = "stop" -> sup'.pc = "kill" /\ ~sup'.stop_ok
      [] sup.phase = "stoppost" -> sup'.pc = "idle" /\ ev'.ret = "StopErr"

\* C19: when the wait for a helper ends without HelperExited having been
\* observed, or under a time-out of zero, the helper is killed, the command
\* has failed, and the pid table holds no entry for the helper's pid.
C19_TimedOutHelper ==
    [][(/\ sup.pc = "cmdwait" /\ sup'.pc # "cmdwait"
        /\ (PhaseTimeout(sup.phase) = "Zero" \/ ~HelperExited)) =>
          /\ sup.hpid \notin DOMAIN pid_table'
          /\ sup.hpid \in DOMAIN procs' => ~procs'[sup.hpid].alive
          /\ CommandFailed]_vars

\* A helper that never exits by itself was killed under a time-out of zero
\* and has no entry.
C19_Witness ==
    /\ conf.stoptimeout = "Zero"
    /\ sup.pc = "kill" /\ ~sup.stop_ok
    /\ \E p \in DOMAIN procs :
          /\ procs[p].beh = "hang" /\ ~procs[p].alive
          /\ p \notin DOMAIN pid_table

\* C20: for a service without stop and stoppost commands stop returns Ok,
\* and a stop that follows a stop sends no signal and changes neither the
\* service nor the pid table.
C20_StopTwice ==
    [][(/\ sup.pc = "kill" /\ sup'.pc # "kill"
        /\ conf.stop = <<>> /\ conf.stoppost = <<>>) =>
          /\ ev'.ret = "StopOk"
          /\ (ev.op = "stop" /\ ev.again) =>
                /\ ev'.op = "nokill"
                /\ UNCHANGED <<srvc, pid_table, procs, nextPid, sock, eventfd>>]_vars

\* The second of two stops of a started service has returned.
C20_Witness ==
    /\ ev.op = "nokill" /\ ev.again /\ ev.ret = "StopOk"
    /\ conf.stop = <<>> /\ conf.stoppost = <<>>
    /\ srvc.status # "NeverRan"
    /\ srvc.pid = None

\* ------------------------------------------------------------------------
\* Invariants of the service's pid, process group and status
\* ------------------------------------------------------------------------

\* The thread is inside Service::stop.
StopInProgress ==
    \/ sup.pc = "kill"
    \/ sup.pc \in {"cmd", "cmdwait"} /\ sup.phase \in {"stop", "stoppost"}

\* C21: outside a stop in progress a service whose status is Running has its
\* pid set; so after stop has returned the status is not Running.
C21_RunningHasPid ==
    ~StopInProgress => (srvc.status = "Running" => srvc.pid # None)

\* C22: the process group is set exactly when the pid is set, and is then
\* -pid; so no step clears or sets one of the two without the other.
C22_ProcessGroupIsMinusPid ==
    /\ srvc.pid # None <=> srvc.process_group # None
    /\ srvc.pid # None => srvc.process_group = -srvc.pid

\* A service that was forked, with its pid and process group, and then
\* stopped has neither.
C22_Witness ==
    /\ ev.op = "kill" /\ ev.ret = "StopOk"
    /\ srvc.status # "NeverRan"
    /\ srvc.pid = None /\ srvc.process_group = None

\* The smallest cap on status_msgs the specification allows.
StatusCap == 16

\* C23: status_msgs never holds more than a fixed number of messages (16 is
\* the smallest the specification allows), whatever number of STATUS
\* notifications arrived.
C23_StatusMsgsBounded == Len(srvc.status_msgs) <= StatusCap

\* ------------------------------------------------------------------------
\* The lock-acquisition protocol
\* ------------------------------------------------------------------------

\* C24: a thread locks a unit only while it holds the registry lock (or
\* takes both in one step), it locks units in ascending UnitId order, and
\* once it has released the registry lock it holds the locks of the unit and
\* of every unit the activation needs.
C24_LockProtocol ==
    \A j \in Jobs :
        /\ Wants(j) # {} => (j.pc = "start" \/ HoldsRegistry(j))
        /\ \A w \in Wants(j) : \A h \in HeldBy(j) : h < w
        /\ (j.kind = "act" /\ j.pc \in {"relock", "activate"})
                => ({j.id} \cup needs[j.id]) \subseteq HeldBy(j)

\* ------------------------------------------------------------------------
\* The locks taken by the steps of Service::start and of the helper protocol
\* ------------------------------------------------------------------------

Acq(l) == [a |-> "acq", l |-> l]
Rel(l) == [a |-> "rel", l |-> l]

\* start_service locking a unit of its own.
StartServiceLocks_Unit == <<Acq("fd_store"), Acq("unit"), Rel("unit"), Rel("fd_store")>>

\* Service::start, line 79: the call of start_service takes the read lock of
\* fd_store for its argument; start_service is handed the service, its name
\* and the fd store, not the unit table.
StartServiceLocks == <<Acq("fd_store"), Rel("fd_store")>>

\* The locks a step of the thread takes and releases, in order, by the
\* operation the step has run:
\*   spawn    run_cmd 212-222: the pid table, around spawn and insert
\*   cmd_end  wait_for_helper_child 407-440: the pid table, around get and
\*            remove; run_cmd 262-265: the pid table, around remove
\*   fork     Service::start 75-88: the pid table, around start_service,
\*            insert and notify_event_fds
\* The other steps take no lock the pid table is held under.
LockTrace(op) ==
    CASE op = "spawn"   -> <<Acq("pid_table"), Rel("pid_table")>>
      [] op = "cmd_end" -> <<Acq("pid_table"), Rel("pid_table"),
                             Acq("pid_table"), Rel("pid_table")>>
      [] op = "fork"    -> <<Acq("pid_table")>> \o StartServiceLocks \o <<Rel("pid_table")>>
      [] OTHER          -> <<>>

\* The locks held after the first n events of a trace.
RECURSIVE HeldAfter(_, _)
HeldAfter(trace, n) ==
    IF n = 0 THEN {}
    ELSE IF trace[n].a = "acq" THEN HeldAfter(trace, n - 1) \cup {trace[n].l}
    ELSE HeldAfter(trace, n - 1) \ {trace[n].l}

\* The thread of Service::start or Service::stop is blocked: it waits for a
\* helper command to exit or for the service's readiness.
Blocked == sup.pc \in {"cmdwait", "wait"}

\* C25: no per-unit lock is held by a thread that waits for a helper command
\* or for readiness, so the multiplexer can take its snapshot, which locks
\* the unit, while such a wait is going on.
C25_SnapshotNotHeldUp ==
    (Blocked /\ mux.pc = "snapshot" /\ ~srvc.poisoned) => ENABLED StreamsSnapshot

\* ------------------------------------------------------------------------
\* The pid table
\* ------------------------------------------------------------------------

\* C26: whenever the reaper looks a service process's pid up, from the fork
\* on, the pid table holds the Service entry of that pid.
C26_ForkedServiceInTable ==
    \A p \in DOMAIN procs :
        procs[p].beh = "service"
            => p \in DOMAIN pid_table /\ pid_table[p].kind = "Service"

\* The service process has exited while start is still in its readiness
\* wait: the reaper, which runs next, finds the entry.
C26_Witness ==
    /\ sup.pc = "wait"
    /\ \E p \in DOMAIN procs :
          /\ procs[p].beh = "service" /\ ~procs[p].alive
          /\ p = srvc.pid
          /\ p \in DOMAIN pid_table /\ pid_table[p].kind = "Service"

\* While the thread waits for a helper, the pid table holds a Helper or a
\* HelperExited entry for the helper's pid.
HelperHasEntry ==
    sup.pc = "cmdwait" =>
        /\ sup.hpid \in DOMAIN pid_table
        /\ pid_table[sup.hpid].kind \in {"Helper", "HelperExited"}

RECURSIVE StatusValues(_)
StatusValues(lines) ==
    IF lines = <<>> THEN <<>>
    ELSE LET split == Split(Head(lines), EQ) IN
         (IF Len(split) >= 2 /\ split[1] = <<"STATUS">> THEN <<split[2]>> ELSE <<>>)
            \o StatusValues(Tail(lines))

\* A line READY=... is among lines.
ReadyLine(lines) ==
    \E k \in 1..Len(lines) :
        LET split == Split(lines[k], EQ) IN Len(split) >= 2 /\ split[1] = <<"READY">>

\* C29: whatever was received, handling it has not failed, every complete
\* line was consumed, and the service is as the lines KEY=value with a known
\* key leave it: the lines without "=" and the unknown keys changed nothing.
C29_MalformedLinesSkipped ==
    /\ ~srvc.poisoned
    /\ Find(srvc.notifications_buffer, NL) = 0
    /\ srvc.status_msgs = StatusValues(Lines(Received))
    /\ srvc.signaled_ready = ReadyLine(Lines(Received))
    /\ srvc.status = "NeverRan"

============================================================================
